---- MODULE Spec2Model ----
(***************************************************************************)
(* Model of pkg/maven/maven.go: construction of the mvn command line,      *)
(* Execute / Evaluate / InstallFile on an injected runner, and the         *)
(* multi-module workflow doInstallMavenArtifacts.                          *)
(*                                                                         *)
(* Go strings are TLA+ strings; a []string is a sequence of strings.  An   *)
(* error is the chain of its wrapped messages, outermost first; <<>> is    *)
(* nil.  Every call made on the injected runner or on the utils is         *)
(* recorded as [op, args, ok].                                             *)
(***************************************************************************)
EXTENDS Naturals, Sequences, FiniteSets, TLC

\* Longest list of pom.xml files glob returns.
MaxModules == 2
\* Most Flags, Defines and Goals, counted together, of one options value.
MaxList == 3

----------------------------------------------------------------------------
(* strings, paths, errors *)

mavenExecutable == "mvn"

\* strings.HasPrefix
HasPrefix(s, prefix) ==
    /\ Len(s) >= Len(prefix)
    /\ SubSeq(s, 1, Len(prefix)) = prefix

\* strings.Contains
Contains(s, substr) ==
    \E i \in 1..(Len(s) + 1) :
        /\ i + Len(substr) - 1 <= Len(s)
        /\ SubSeq(s, i, i + Len(substr) - 1) = substr

\* Index of the last "/" of p, 0 when there is none.
LastSlash(p) ==
    LET at == {i \in 1..Len(p) : SubSeq(p, i, i) = "/"}
    IN  IF at = {} THEN 0 ELSE CHOOSE i \in at : \A j \in at : j <= i

\* path.Dir on a clean path: everything before the last slash; "." when
\* there is no slash, "/" when the only slash is the leading one.
Dir(p) ==
    LET i == LastSlash(p)
    IN  IF i = 0 THEN "."
        ELSE IF i = 1 THEN "/"
        ELSE SubSeq(p, 1, i - 1)

\* The absolute path that a path names in working directory wd.
Resolve(wd, p) ==
    IF HasPrefix(p, "/") THEN p
    ELSE IF p = "." THEN wd
    ELSE wd \o "/" \o p

NoErr == <<>>

\* fmt.Errorf("msg: %w", err)
Wrap(msg, err) == <<msg>> \o err

Call(op, args, ok) == [op |-> op, args |-> args, ok |-> ok]

\* piperutils.Files.FileExists on the disk `fs`, a set of absolute paths.
FileExists(fs, wd, p) == Resolve(wd, p) \in fs

----------------------------------------------------------------------------
(* Execute and the construction of its parameters.                         *)
(* env is what the outside does during one Execute:                        *)
(*   dlGlobal, dlProject  whether a DownloadFile of that file succeeds     *)
(*   runOK                whether RunExecutable succeeds                   *)
(*   out                  what the process writes to standard output       *)

ExecuteOptionsZero ==
    [PomPath |-> "", ProjectSettingsFile |-> "", GlobalSettingsFile |-> "",
     M2Path |-> "", Goals |-> <<>>, Defines |-> <<>>, Flags |-> <<>>,
     LogSuccessfulMavenTransfers |-> FALSE, ReturnStdout |-> FALSE]

globalSettingsPath == ".pipeline/mavenGlobalSettings.xml"
projectSettingsPath == ".pipeline/mavenProjectSettings.xml"
transferListenerDefine ==
    "-Dorg.slf4j.simpleLogger.log.org.apache.maven.cli.transfer.Slf4jMavenTransferListener=warn"

\* Result: the error, the disk afterwards, the utils calls made.
downloadSettingsFromURLAlways(url, filename, fs, wd, dlOK) ==
    IF dlOK
    THEN [err |-> NoErr, fs |-> fs \cup {Resolve(wd, filename)},
          calls |-> <<Call("FileExists", <<filename>>, FileExists(fs, wd, filename)),
                      Call("DownloadFile", <<url, filename>>, TRUE)>>]
    ELSE [err |-> Wrap("failed to download maven settings", <<"download failed">>),
          fs |-> fs,
          calls |-> <<Call("FileExists", <<filename>>, FileExists(fs, wd, filename)),
                      Call("DownloadFile", <<url, filename>>, FALSE)>>]

downloadSettingsFromURL(url, filename, fs, wd, dlOK) ==
    IF FileExists(fs, wd, filename)
    THEN [err |-> NoErr, fs |-> fs,
          calls |-> <<Call("FileExists", <<filename>>, TRUE)>>]
    ELSE IF dlOK
    THEN [err |-> NoErr, fs |-> fs \cup {Resolve(wd, filename)},
          calls |-> <<Call("FileExists", <<filename>>, FALSE),
                      Call("DownloadFile", <<url, filename>>, TRUE)>>]
    ELSE [err |-> Wrap("failed to download maven settings", <<"download failed">>),
          fs |-> fs,
          calls |-> <<Call("FileExists", <<filename>>, FALSE),
                      Call("DownloadFile", <<url, filename>>, FALSE)>>]

\* Result: the file name for the command line, the error, the disk, the calls.
\* d is what downloadSettingsFromURL returned.
downloadedSettings(d, settingsFile) ==
    IF d.err # NoErr
    THEN [result |-> "", err |-> d.err, fs |-> d.fs, calls |-> d.calls]
    ELSE [result |-> settingsFile, err |-> NoErr, fs |-> d.fs, calls |-> d.calls]

downloadSettingsIfURL(settingsFileOption, settingsFile, fs, wd, dlOK) ==
    IF HasPrefix(settingsFileOption, "http:") \/ HasPrefix(settingsFileOption, "https:")
    THEN downloadedSettings(
            downloadSettingsFromURL(settingsFileOption, settingsFile, fs, wd, dlOK),
            settingsFile)
    ELSE [result |-> settingsFileOption, err |-> NoErr, fs |-> fs, calls |-> <<>>]

\* The part of the parameters that follows the settings files.
tailParametersGoalsFirst(options) ==
    options.Goals
    \o (IF options.M2Path # "" THEN <<"-Dmaven.repo.local=" \o options.M2Path>> ELSE <<>>)
    \o (IF options.PomPath # "" THEN <<"--file", options.PomPath>> ELSE <<>>)
    \o options.Flags
    \o options.Defines
    \o (IF ~options.LogSuccessfulMavenTransfers THEN <<transferListenerDefine>> ELSE <<>>)
    \o <<"--batch-mode">>

tailParameters(options) ==
    (IF options.M2Path # "" THEN <<"-Dmaven.repo.local=" \o options.M2Path>> ELSE <<>>)
    \o (IF options.PomPath # "" THEN <<"--file", options.PomPath>> ELSE <<>>)
    \o options.Flags
    \o options.Defines
    \o (IF ~options.LogSuccessfulMavenTransfers THEN <<transferListenerDefine>> ELSE <<>>)
    \o <<"--batch-mode">>
    \o options.Goals

\* One settings option: nothing when it is empty, else the flag and the
\* file name downloadSettingsIfURL yields.  Result: parameters, err, fs, calls.
settingsParameters(flag, d) ==
    IF d.err # NoErr
    THEN [parameters |-> <<>>, err |-> d.err, fs |-> d.fs, calls |-> d.calls]
    ELSE [parameters |-> <<flag, d.result>>, err |-> NoErr, fs |-> d.fs,
          calls |-> d.calls]

globalSettingsParameters(options, fs, wd, env) ==
    IF options.GlobalSettingsFile # ""
    THEN settingsParameters("--global-settings",
            downloadSettingsIfURL(options.GlobalSettingsFile, globalSettingsPath,
                                  fs, wd, env.dlGlobal))
    ELSE [parameters |-> <<>>, err |-> NoErr, fs |-> fs, calls |-> <<>>]

projectSettingsParameters(options, fs, wd, env) ==
    IF options.ProjectSettingsFile # ""
    THEN settingsParameters("--settings",
            downloadSettingsIfURL(options.ProjectSettingsFile, projectSettingsPath,
                                  fs, wd, env.dlProject))
    ELSE [parameters |-> <<>>, err |-> NoErr, fs |-> fs, calls |-> <<>>]

\* g and p are the results for the global and the project settings.
joinParameters(options, g, p) ==
    IF p.err # NoErr
    THEN [parameters |-> <<>>, err |-> p.err, fs |-> p.fs, calls |-> g.calls \o p.calls]
    ELSE [parameters |-> g.parameters \o p.parameters \o tailParameters(options),
          err |-> NoErr, fs |-> p.fs, calls |-> g.calls \o p.calls]

afterGlobalSettings(options, g, wd, env) ==
    IF g.err # NoErr
    THEN g
    ELSE joinParameters(options, g, projectSettingsParameters(options, g.fs, wd, env))

\* Result: parameters (<<>> for nil), err, the disk, the utils calls.
getParametersFromOptions(options, fs, wd, env) ==
    afterGlobalSettings(options, globalSettingsParameters(options, fs, wd, env), wd, env)

\* The buffer (present or nil) and the writer handed to the runner.
evaluateStdOut(options) ==
    IF options.ReturnStdout
    THEN [stdOutBuf |-> TRUE,  stdOut |-> <<"log", "buffer">>]
    ELSE [stdOutBuf |-> FALSE, stdOut |-> <<"log">>]

\* What Execute returns once RunExecutable has succeeded.
stdoutValueAlways(hasBuf, out) == out

stdoutValue(hasBuf, out) == IF hasBuf THEN out ELSE ""

\* The calls that set the runner's writers.
setWriters(so) == <<Call("Stdout", so.stdOut, TRUE), Call("Stderr", <<"log">>, TRUE)>>

\* Execute from the parameters on: so is what evaluateStdOut returned, par
\* what getParametersFromOptions returned.
runWith(so, par, env) ==
    IF par.err # NoErr
    THEN [value |-> "",
          err |-> Wrap("failed to construct parameters from options", par.err),
          fs |-> par.fs, calls |-> setWriters(so) \o par.calls]
    ELSE IF ~env.runOK
    THEN [value |-> "",
          err |-> Wrap("failed to run executable", <<"exit status 1">>),
          fs |-> par.fs,
          calls |-> setWriters(so) \o par.calls
                    \o <<Call("RunExecutable", <<mavenExecutable>> \o par.parameters, FALSE)>>]
    ELSE [value |-> stdoutValue(so.stdOutBuf, env.out), err |-> NoErr,
          fs |-> par.fs,
          calls |-> setWriters(so) \o par.calls
                    \o <<Call("RunExecutable", <<mavenExecutable>> \o par.parameters, TRUE)>>]

\* Result: value, err, the disk, and the calls on runner and utils in order.
Execute(options, fs, wd, env) ==
    runWith(evaluateStdOut(options), getParametersFromOptions(options, fs, wd, env), env)

evaluateGoal == "org.apache.maven.plugins:maven-help-plugin:3.1.0:evaluate"
invalidExpression == "null object or invalid expression"

evaluateDefinesQuietFirst(expression) ==
    <<"-q", "-Dexpression=" \o expression, "-DforceStdout">>

evaluateDefines(expression) ==
    <<"-Dexpression=" \o expression, "-DforceStdout", "-q">>

\* r is what Execute returned.
evaluated(r) ==
    IF r.err # NoErr
    THEN [value |-> "", err |-> r.err, fs |-> r.fs, calls |-> r.calls]
    ELSE IF HasPrefix(r.value, invalidExpression)
    THEN [value |-> "", err |-> <<"expression could not be resolved">>,
          fs |-> r.fs, calls |-> r.calls]
    ELSE [value |-> r.value, err |-> NoErr, fs |-> r.fs, calls |-> r.calls]

\* options is an EvaluateOptions: PomPath, ProjectSettingsFile,
\* GlobalSettingsFile, M2Path.
Evaluate(options, expression, fs, wd, env) ==
    evaluated(Execute([ExecuteOptionsZero EXCEPT
                          !.PomPath = options.PomPath,
                          !.M2Path = options.M2Path,
                          !.ProjectSettingsFile = options.ProjectSettingsFile,
                          !.GlobalSettingsFile = options.GlobalSettingsFile,
                          !.Goals = <<evaluateGoal>>,
                          !.Defines = evaluateDefines(expression),
                          !.ReturnStdout = TRUE],
                      fs, wd, env))

installDefinesNoClassifier(file, pomFile) ==
    (IF Len(file) > 0
     THEN <<"-Dfile=" \o file>>
          \o (IF Contains(file, ".jar") THEN <<"-Dpackaging=jar">> ELSE <<>>)
     ELSE <<"-Dfile=" \o pomFile>>)
    \o <<"-DpomFile=" \o pomFile>>

installDefines(file, pomFile) ==
    (IF Len(file) > 0
     THEN <<"-Dfile=" \o file>>
          \o (IF Contains(file, ".jar") THEN <<"-Dpackaging=jar">> ELSE <<>>)
          \o (IF Contains(file, "-classes") THEN <<"-Dclassifier=classes">> ELSE <<>>)
     ELSE <<"-Dfile=" \o pomFile>>)
    \o <<"-DpomFile=" \o pomFile>>

\* r is what Execute returned.
installed(r) ==
    IF r.err # NoErr
    THEN [err |-> Wrap("failed to install maven artifacts", r.err),
          fs |-> r.fs, calls |-> r.calls]
    ELSE [err |-> NoErr, fs |-> r.fs, calls |-> r.calls]

\* Result: err, the disk, the calls.
InstallFile(file, pomFile, m2Path, fs, wd, env) ==
    IF Len(pomFile) = 0
    THEN [err |-> <<"pomFile can't be empty">>, fs |-> fs, calls |-> <<>>]
    ELSE installed(Execute([ExecuteOptionsZero EXCEPT
                               !.Goals = <<"install:install-file">>,
                               !.Defines = installDefines(file, pomFile),
                               !.PomPath = pomFile,
                               !.M2Path = m2Path],
                           fs, wd, env))

\* Result: err (Execute's, unwrapped), the disk, the calls.
flattenPom(fs, wd, env) ==
    Execute([ExecuteOptionsZero EXCEPT
                !.Goals = <<"flatten:flatten">>,
                !.Defines = <<"-Dflatten.mode=resolveCiFriendliesOnly">>,
                !.PomPath = "pom.xml"],
            fs, wd, env)

jarFile(finalName) == "target/" \o finalName \o ".jar"
classesJarFile(finalName) == "target/" \o finalName \o "-classes.jar"
warFile(finalName) == "target/" \o finalName \o ".war"

----------------------------------------------------------------------------
(* state *)

VARIABLES
    input,      \* the call under test: its name and its arguments
    last,       \* what the most recent direct call returned and the calls it made
    files,      \* the disk: absolute paths of the files that exist
    downloads,  \* absolute paths written by successful DownloadFile calls, in order
    cwd,        \* the process working directory
    entryDir,   \* the working directory when doInstallMavenArtifacts was called
    pc,         \* position inside doInstallMavenArtifacts
    options,    \* its options parameter (a copy: PomPath is overwritten)
    pomFiles,   \* result of glob
    idx,        \* position of the range loop in pomFiles
    oldWorkingDirectory,
    packaging,
    finalName,
    exists,     \* jarExists, warExists, classesJarExists
    err,        \* the function-level err variable
    result,     \* the returned error once pc = "done"
    log,        \* runner and utils calls since the working directory last changed into a module (or since the call)
    utilsLog,   \* every glob / getwd / chdir call of the run
    entered,    \* pom files whose directory was entered, in order
    failures    \* history: [step, err] of every step of the run that returned an error

vars == <<input, last, files, downloads, cwd, entryDir, pc, options, pomFiles, idx,
          oldWorkingDirectory, packaging, finalName, exists, err, result, log,
          utilsLog, entered, failures>>

installVars == <<entryDir, pc, options, pomFiles, idx, oldWorkingDirectory, packaging,
                 finalName, exists, err, result, log, utilsLog, entered, failures>>

----------------------------------------------------------------------------
(* inputs *)

WorkDir == "/ws"

BoundedSeq(S, n) == UNION {[1..k -> S] : k \in 0..n}

GlobalSettingsValues == {"", "settings.xml", "https://h/g.xml"}
ProjectSettingsValues == {"", "httpd/p.xml", "http://h/p.xml"}
M2Values == {"", "/m2"}
FlagValues == {"-X", "-o"}
DefineValues == {"-Da=b", "-DskipTests"}
GoalValues == {"clean", "install"}
Expressions == {"project.version", "project.packaging"}
ArtifactValues == {"", "target/app.jar", "target/app.war", "target/app-classes.jar",
                   "target/app-classes.war"}
PomValues == {"", "pom.xml", "sub/pom.xml"}

\* What a mvn process may print.
Outputs == {"", "pom", "null object or invalid expression: x"}

Envs == [dlGlobal : BOOLEAN, dlProject : BOOLEAN, runOK : BOOLEAN, out : Outputs]

ExecuteOptionsSet ==
    {o \in [PomPath : {"", "pom.xml"},
            ProjectSettingsFile : ProjectSettingsValues,
            GlobalSettingsFile : GlobalSettingsValues,
            M2Path : M2Values,
            Goals : BoundedSeq(GoalValues, MaxList),
            Defines : BoundedSeq(DefineValues, MaxList),
            Flags : BoundedSeq(FlagValues, MaxList),
            LogSuccessfulMavenTransfers : BOOLEAN,
            ReturnStdout : BOOLEAN] :
        Len(o.Goals) + Len(o.Defines) + Len(o.Flags) <= MaxList}

EvaluateOptionsSet ==
    [PomPath : {"", "pom.xml"},
     ProjectSettingsFile : ProjectSettingsValues,
     GlobalSettingsFile : GlobalSettingsValues,
     M2Path : M2Values]

\* Inputs of getParametersFromOptions called on its own.
ParameterInputs ==
    {[op |-> "getParametersFromOptions", options |-> o] : o \in ExecuteOptionsSet}

\* Inputs of the exported functions; Execute hands Flags and Defines to
\* getParametersFromOptions untouched, so only Goals vary here.
Inputs ==
    {[op |-> "Execute", options |-> o] :
        o \in {x \in ExecuteOptionsSet : x.Flags = <<>> /\ x.Defines = <<>>}}
    \cup {[op |-> "Evaluate", options |-> o, expression |-> e] :
            o \in EvaluateOptionsSet, e \in Expressions}
    \cup {[op |-> "InstallFile", file |-> f, pomFile |-> p, m2Path |-> m] :
            f \in ArtifactValues, p \in PomValues, m \in M2Values}

NoCall == [op |-> "none", value |-> "", parameters |-> <<>>, err |-> NoErr,
           calls |-> <<>>, out |-> ""]

\* Paths written by the successful DownloadFile calls among calls.
Downloaded(calls, wd) ==
    LET at == {i \in 1..Len(calls) : calls[i].op = "DownloadFile" /\ calls[i].ok}
        F[i \in 0..Len(calls)] ==
            IF i = 0 THEN <<>>
            ELSE IF i \in at THEN Append(F[i - 1], Resolve(wd, calls[i].args[2]))
            ELSE F[i - 1]
    IN  F[Len(calls)]

InstallIdle ==
    /\ entryDir = WorkDir
    /\ pc = "idle"
    /\ options = [PomPath |-> "", ProjectSettingsFile |-> "", GlobalSettingsFile |-> "",
                  M2Path |-> ""]
    /\ pomFiles = <<>>
    /\ idx = 0
    /\ oldWorkingDirectory = ""
    /\ packaging = ""
    /\ finalName = ""
    /\ exists = [jar |-> FALSE, war |-> FALSE, classes |-> FALSE]
    /\ err = NoErr
    /\ result = NoErr
    /\ log = <<>>
    /\ utilsLog = <<>>
    /\ entered = <<>>
    /\ failures = <<>>

----------------------------------------------------------------------------
(* direct calls of the package's functions *)

InitParameters ==
    /\ input \in ParameterInputs
    /\ last = NoCall
    /\ files = {}
    /\ downloads = <<>>
    /\ cwd = WorkDir
    /\ InstallIdle

InitApi ==
    /\ input \in Inputs
    /\ last = NoCall
    /\ files = {}
    /\ downloads = <<>>
    /\ cwd = WorkDir
    /\ InstallIdle

\* A direct call returned r; out is what its process printed, if it ran one.
Returned(r, out) ==
    /\ last' = [op |-> input.op,
                value |-> IF "value" \in DOMAIN r THEN r.value ELSE "",
                parameters |-> IF "parameters" \in DOMAIN r THEN r.parameters ELSE <<>>,
                err |-> r.err, calls |-> r.calls, out |-> out]
    /\ files' = r.fs
    /\ downloads' = downloads \o Downloaded(r.calls, cwd)

CallGetParametersFromOptions ==
    /\ input.op = "getParametersFromOptions"
    /\ \E dlGlobal \in BOOLEAN, dlProject \in BOOLEAN :
        Returned(getParametersFromOptions(
                    input.options, files, cwd,
                    [dlGlobal |-> dlGlobal, dlProject |-> dlProject]),
                 "")
    /\ UNCHANGED <<input, cwd, installVars>>

CallExecute ==
    /\ input.op = "Execute"
    /\ \E env \in Envs :
        Returned(Execute(input.options, files, cwd, env), env.out)
    /\ UNCHANGED <<input, cwd, installVars>>

CallEvaluate ==
    /\ input.op = "Evaluate"
    /\ \E env \in Envs :
        Returned(Evaluate(input.options, input.expression, files, cwd, env), env.out)
    /\ UNCHANGED <<input, cwd, installVars>>

CallInstallFile ==
    /\ input.op = "InstallFile"
    /\ \E env \in Envs :
        Returned(InstallFile(input.file, input.pomFile, input.m2Path, files, cwd, env),
                 "")
    /\ UNCHANGED <<input, cwd, installVars>>

NextParameters == CallGetParametersFromOptions

SpecParameters == InitParameters /\ [][NextParameters]_vars

NextApi ==
    \/ CallExecute
    \/ CallEvaluate
    \/ CallInstallFile

SpecApi == InitApi /\ [][NextApi]_vars

----------------------------------------------------------------------------
(* doInstallMavenArtifacts, one action per call it makes on the outside *)

PomUniverse == {"pom.xml", "a/pom.xml", "a/b/pom.xml"}

\* What glob may return: distinct pom.xml paths in any order.
GlobResults ==
    {m \in BoundedSeq(PomUniverse, MaxModules) :
        \A i, j \in 1..Len(m) : i # j => m[i] # m[j]}

\* What the mvn processes of the workflow may print.
InstallOutputs == {"", "pom", "app-classes", "null object or invalid expression: x"}

\* The project settings of the workflow are never a URL, so only the
\* download of the global settings has an outcome.
InstallEnvs == [dlGlobal : BOOLEAN, dlProject : {TRUE}, runOK : BOOLEAN,
                out : InstallOutputs]

InstallOptionsSet ==
    [PomPath : {"my/pom.xml"},
     ProjectSettingsFile : {"", "settings.xml"},
     GlobalSettingsFile : {"", "https://h/g.xml"},
     M2Path : M2Values]

Init ==
    /\ input = [op |-> "doInstallMavenArtifacts"]
    /\ last = NoCall
    /\ files = {}
    /\ downloads = <<>>
    /\ cwd = WorkDir
    /\ entryDir = WorkDir
    /\ pc = "flatten"
    /\ options \in InstallOptionsSet
    /\ pomFiles = <<>>
    /\ idx = 0
    /\ oldWorkingDirectory = ""
    /\ packaging = ""
    /\ finalName = ""
    /\ exists = [jar |-> FALSE, war |-> FALSE, classes |-> FALSE]
    /\ err = NoErr
    /\ result = NoErr
    /\ log = <<>>
    /\ utilsLog = <<>>
    /\ entered = <<>>
    /\ failures = <<>>

\* `if err != nil { return err }`: where control goes after a step.
afterStepIgnoringErr(e, nextPc) == nextPc

afterStep(e, nextPc) == IF e # NoErr THEN "done" ELSE nextPc

\* The bookkeeping common to every step: the return on error.
Returns(step, e, nextPc) ==
    /\ pc' = afterStep(e, nextPc)
    /\ result' = IF e # NoErr THEN e ELSE result
    /\ failures' = IF e # NoErr THEN Append(failures, [step |-> step, err |-> e])
                   ELSE failures

\* A step that runs mvn through Execute: r is what the callee returned.
Ran(step, r, nextPc) ==
    /\ log' = log \o r.calls
    /\ files' = r.fs
    /\ downloads' = downloads \o Downloaded(r.calls, cwd)
    /\ Returns(step, r.err, nextPc)

\* os.Chdir
chdir(wd, dir) == Resolve(wd, dir)

\* The first install of installJarWarArtifacts that is due from `from` on.
nextInstallSkippingWar(from, e) ==
    IF from = "fileExists" /\ e.jar THEN "jar"
    ELSE IF from \in {"fileExists", "jar", "war"} /\ e.classes THEN "classes"
    ELSE "chdirBack"

nextInstall(from, e) ==
    IF from = "fileExists" /\ e.jar THEN "jar"
    ELSE IF from \in {"fileExists", "jar"} /\ e.war THEN "war"
    ELSE IF from \in {"fileExists", "jar", "war"} /\ e.classes THEN "classes"
    ELSE "chdirBack"

Flattened(r) ==
    /\ Ran("flatten", r, "glob")
    /\ err' = r.err

\* `if packaging == "pom"`
afterPackagingNeverPom(value) == "finalName"

afterPackaging(value) == IF value = "pom" THEN "installPom" ELSE "finalName"

\* `if finalName == ""`
afterFinalName(value) == IF value = "" THEN "installPomOnly" ELSE "fileExists"

EvaluatedPackaging(r) ==
    /\ packaging' = r.value
    /\ Ran("packaging", r, afterPackaging(r.value))

EvaluatedFinalName(r) ==
    /\ finalName' = r.value
    /\ Ran("finalName", r, afterFinalName(r.value))

Flatten ==
    /\ pc = "flatten"
    /\ \E env \in InstallEnvs :
        Flattened(flattenPom(files, cwd, env))
    /\ UNCHANGED <<input, last, cwd, entryDir, options, pomFiles, idx,
                   oldWorkingDirectory, packaging, finalName, exists, utilsLog, entered>>

Glob ==
    /\ pc = "glob"
    /\ \E ok \in BOOLEAN, matches \in GlobResults :
        LET e == IF ok THEN NoErr ELSE <<"glob failed">>
        IN  /\ (~ok => matches = <<>>)
            /\ utilsLog' = Append(utilsLog, Call("glob", <<"**/pom.xml">>, ok))
            /\ pomFiles' = matches
            /\ err' = e
            /\ Returns("glob", e, "getwd")
    /\ UNCHANGED <<input, last, files, downloads, cwd, entryDir, options, idx,
                   oldWorkingDirectory, packaging, finalName, exists, log, entered>>

Getwd ==
    /\ pc = "getwd"
    /\ \E ok \in BOOLEAN :
        LET e == IF ok THEN NoErr ELSE <<"getwd failed">>
        IN  /\ utilsLog' = Append(utilsLog, Call("getwd", <<>>, ok))
            /\ oldWorkingDirectory' = IF ok THEN cwd ELSE ""
            /\ options' = IF ok THEN [options EXCEPT !.PomPath = "pom.xml"] ELSE options
            /\ idx' = IF ok THEN 1 ELSE idx
            /\ err' = e
            /\ Returns("getwd", e, "loop")
    /\ UNCHANGED <<input, last, files, downloads, cwd, entryDir, pomFiles,
                   packaging, finalName, exists, log, entered>>

\* The loop head with a pom file left: chdir into its directory.
ChdirModule ==
    /\ pc = "loop"
    /\ idx <= Len(pomFiles)
    /\ \E ok \in BOOLEAN :
        LET dir == Dir(pomFiles[idx])
            e == IF ok THEN NoErr ELSE <<"chdir failed">>
        IN  /\ utilsLog' = Append(utilsLog, Call("chdir", <<dir>>, ok))
            /\ cwd' = IF ok THEN chdir(cwd, dir) ELSE cwd
            /\ entered' = IF ok THEN Append(entered, pomFiles[idx]) ELSE entered
            /\ log' = IF ok THEN <<>> ELSE log
            /\ packaging' = IF ok THEN "" ELSE packaging
            /\ finalName' = IF ok THEN "" ELSE finalName
            /\ exists' = IF ok THEN [jar |-> FALSE, war |-> FALSE, classes |-> FALSE]
                          ELSE exists
            /\ err' = e
            /\ Returns("chdir", e, "packaging")
    /\ UNCHANGED <<input, last, files, downloads, entryDir, options, pomFiles, idx,
                   oldWorkingDirectory>>

\* The loop head with no pom file left: `return err`.
LoopEnd ==
    /\ pc = "loop"
    /\ idx > Len(pomFiles)
    /\ pc' = "done"
    /\ result' = err
    /\ UNCHANGED <<input, last, files, downloads, cwd, entryDir, options, pomFiles, idx,
                   oldWorkingDirectory, packaging, finalName, exists, err, log,
                   utilsLog, entered, failures>>

EvaluatePackaging ==
    /\ pc = "packaging"
    /\ \E env \in InstallEnvs :
        EvaluatedPackaging(Evaluate(options, "project.packaging", files, cwd, env))
    /\ UNCHANGED <<input, last, cwd, entryDir, options, pomFiles, idx,
                   oldWorkingDirectory, finalName, exists, err, utilsLog, entered>>

InstallPom ==
    /\ pc = "installPom"
    /\ \E env \in InstallEnvs :
        Ran("installPom", InstallFile("", "pom.xml", options.M2Path, files, cwd, env),
            "chdirBack")
    /\ UNCHANGED <<input, last, cwd, entryDir, options, pomFiles, idx,
                   oldWorkingDirectory, packaging, finalName, exists, err, utilsLog,
                   entered>>

EvaluateFinalName ==
    /\ pc = "finalName"
    /\ \E env \in InstallEnvs :
        EvaluatedFinalName(Evaluate(options, "project.build.finalName", files, cwd, env))
    /\ UNCHANGED <<input, last, cwd, entryDir, options, pomFiles, idx,
                   oldWorkingDirectory, packaging, exists, err, utilsLog, entered>>

InstallPomOnly ==
    /\ pc = "installPomOnly"
    /\ \E env \in InstallEnvs :
        Ran("installPomOnly",
            InstallFile("", "pom.xml", options.M2Path, files, cwd, env), "chdirBack")
    /\ UNCHANGED <<input, last, cwd, entryDir, options, pomFiles, idx,
                   oldWorkingDirectory, packaging, finalName, exists, err, utilsLog,
                   entered>>

\* The three FileExists calls; what is in target/ is up to the build that
\* ran before, so each answer is free.
CheckArtifacts ==
    /\ pc = "fileExists"
    /\ \E j \in BOOLEAN, w \in BOOLEAN, c \in BOOLEAN :
        LET e == [jar |-> j, war |-> w, classes |-> c]
        IN  /\ exists' = e
            /\ log' = log \o <<Call("FileExists", <<jarFile(finalName)>>, j),
                               Call("FileExists", <<warFile(finalName)>>, w),
                               Call("FileExists", <<classesJarFile(finalName)>>, c)>>
            /\ pc' = nextInstall("fileExists", e)
    /\ UNCHANGED <<input, last, files, downloads, cwd, entryDir, options, pomFiles, idx,
                   oldWorkingDirectory, packaging, finalName, err, result, utilsLog,
                   entered, failures>>

InstallJar ==
    /\ pc = "jar"
    /\ \E env \in InstallEnvs :
        Ran("jar", InstallFile(jarFile(finalName), "pom.xml", options.M2Path,
                               files, cwd, env),
            nextInstall("jar", exists))
    /\ UNCHANGED <<input, last, cwd, entryDir, options, pomFiles, idx,
                   oldWorkingDirectory, packaging, finalName, exists, err, utilsLog,
                   entered>>

InstallWar ==
    /\ pc = "war"
    /\ \E env \in InstallEnvs :
        Ran("war", InstallFile(warFile(finalName), "pom.xml", options.M2Path,
                               files, cwd, env),
            nextInstall("war", exists))
    /\ UNCHANGED <<input, last, cwd, entryDir, options, pomFiles, idx,
                   oldWorkingDirectory, packaging, finalName, exists, err, utilsLog,
                   entered>>

InstallClassesJar ==
    /\ pc = "classes"
    /\ \E env \in InstallEnvs :
        Ran("classes", InstallFile(classesJarFile(finalName), "pom.xml", options.M2Path,
                                   files, cwd, env),
            "chdirBack")
    /\ UNCHANGED <<input, last, cwd, entryDir, options, pomFiles, idx,
                   oldWorkingDirectory, packaging, finalName, exists, err, utilsLog,
                   entered>>

\* Where the end of the loop body changes the working directory to.
chdirBackTargetStay(old) == "."

chdirBackTarget(old) == old

ChdirBack ==
    /\ pc = "chdirBack"
    /\ \E ok \in BOOLEAN :
        LET target == chdirBackTarget(oldWorkingDirectory)
            e == IF ok THEN NoErr ELSE <<"chdir failed">>
        IN  /\ utilsLog' = Append(utilsLog, Call("chdir", <<target>>, ok))
            /\ cwd' = IF ok THEN chdir(cwd, target) ELSE cwd
            /\ idx' = IF ok THEN idx + 1 ELSE idx
            /\ Returns("chdirBack", e, "loop")
    /\ UNCHANGED <<input, last, files, downloads, entryDir, options, pomFiles,
                   oldWorkingDirectory, packaging, finalName, exists, err, log, entered>>

Next ==
    \/ Flatten
    \/ Glob
    \/ Getwd
    \/ ChdirModule
    \/ LoopEnd
    \/ EvaluatePackaging
    \/ InstallPom
    \/ EvaluateFinalName
    \/ InstallPomOnly
    \/ CheckArtifacts
    \/ InstallJar
    \/ InstallWar
    \/ InstallClassesJar
    \/ ChdirBack

Spec == Init /\ [][Next]_vars

----------------------------------------------------------------------------
(* properties of the direct calls *)

IsURL(v) == HasPrefix(v, "http:") \/ HasPrefix(v, "https:")

\* The command-line value of a settings option whose local copy is `localPath`.
SettingsValue(v, localPath) == IF IsURL(v) THEN localPath ELSE v

\* The command line the options stand for.
ExpectedParameters(o) ==
    (IF o.GlobalSettingsFile # ""
     THEN <<"--global-settings",
            SettingsValue(o.GlobalSettingsFile, ".pipeline/mavenGlobalSettings.xml")>>
     ELSE <<>>)
    \o (IF o.ProjectSettingsFile # ""
        THEN <<"--settings",
               SettingsValue(o.ProjectSettingsFile, ".pipeline/mavenProjectSettings.xml")>>
        ELSE <<>>)
    \o (IF o.M2Path # "" THEN <<"-Dmaven.repo.local=" \o o.M2Path>> ELSE <<>>)
    \o (IF o.PomPath # "" THEN <<"--file", o.PomPath>> ELSE <<>>)
    \o o.Flags
    \o o.Defines
    \o (IF o.LogSuccessfulMavenTransfers THEN <<>>
        ELSE <<"-Dorg.slf4j.simpleLogger.log.org.apache.maven.cli.transfer.Slf4jMavenTransferListener=warn">>)
    \o <<"--batch-mode">>
    \o o.Goals

CallsOf(calls, op) == SelectSeq(calls, LAMBDA c : c.op = op)

FailedDownload(calls) == \E i \in 1..Len(calls) : calls[i].op = "DownloadFile" /\ ~calls[i].ok

\* C1: when no settings download fails, getParametersFromOptions returns
\* exactly: the global settings pair iff GlobalSettingsFile is non-empty, the
\* project settings pair iff ProjectSettingsFile is non-empty, the local
\* repository define iff M2Path is non-empty, the --file pair iff PomPath is
\* non-empty, the Flags, the Defines, the transfer listener define iff
\* LogSuccessfulMavenTransfers is false, --batch-mode, and the Goals last.
C1_ParameterOrder ==
    (last.op = "getParametersFromOptions" /\ ~FailedDownload(last.calls))
        => /\ last.err = NoErr
           /\ last.parameters = ExpectedParameters(input.options)

C1_Witness ==
    /\ last.op = "getParametersFromOptions"
    /\ last.err = NoErr
    /\ input.options.GlobalSettingsFile # ""
    /\ input.options.ProjectSettingsFile # ""
    /\ input.options.M2Path # ""
    /\ input.options.PomPath # ""
    /\ Len(input.options.Flags) = 1
    /\ Len(input.options.Defines) = 1
    /\ Len(input.options.Goals) = 1
    /\ ~input.options.LogSuccessfulMavenTransfers
    /\ Len(last.parameters) = 12

\* The settings options with the flag and the local path of each.
SettingsOptions ==
    {[value |-> input.options.GlobalSettingsFile, flag |-> "--global-settings",
      localPath |-> ".pipeline/mavenGlobalSettings.xml"],
     [value |-> input.options.ProjectSettingsFile, flag |-> "--settings",
      localPath |-> ".pipeline/mavenProjectSettings.xml"]}

\* The value that follows `flag` in the parameters.
ValueAfter(parameters, flag) ==
    LET at == {i \in 1..Len(parameters) - 1 : parameters[i] = flag}
    IN  {parameters[i + 1] : i \in at}

\* C10: a settings option that is a URL yields the fixed local path, and
\* DownloadFile is called for it only right after FileExists reported that
\* path absent, so that no settings file is downloaded twice; any other
\* non-empty value is passed through and never downloaded; a failed download
\* makes the construction return an error and no parameters.
C10_DownloadOnlyIfAbsent ==
    last.op = "getParametersFromOptions" =>
        /\ \A s \in SettingsOptions :
              /\ (s.value # "" /\ last.err = NoErr) =>
                    ValueAfter(last.parameters, s.flag)
                        = {IF IsURL(s.value) THEN s.localPath ELSE s.value}
              /\ ~IsURL(s.value) =>
                    \A i \in 1..Len(last.calls) :
                        last.calls[i].op = "DownloadFile"
                            => last.calls[i].args[2] # s.localPath
        /\ \A i \in 1..Len(last.calls) :
              last.calls[i].op = "DownloadFile" =>
                    /\ i > 1
                    /\ last.calls[i - 1] = Call("FileExists", <<last.calls[i].args[2]>>, FALSE)
                    /\ Resolve(cwd, last.calls[i].args[2]) \notin
                          {downloads[k] : k \in 1..Len(downloads) - Len(Downloaded(last.calls, cwd))}
        /\ \A i, j \in 1..Len(downloads) : i # j => downloads[i] # downloads[j]
        /\ FailedDownload(last.calls) => (last.err # NoErr /\ last.parameters = <<>>)

\* Both files downloaded by earlier constructions, and the latest one found
\* them on disk and downloaded nothing.
C10_Witness ==
    /\ last.op = "getParametersFromOptions"
    /\ Len(downloads) = 2
    /\ Len(CallsOf(last.calls, "FileExists")) = 2
    /\ CallsOf(last.calls, "DownloadFile") = <<>>
    /\ last.err = NoErr

\* C2: Execute calls RunExecutable at most once, as its last call on the
\* runner, with "mvn" and the parameters the options stand for, after Stdout
\* and Stderr were set.  A successful run returns the captured output when
\* ReturnStdout is set and "" otherwise, with a nil error; a failed run
\* returns "" and an error; a failed parameter construction returns "" and
\* an error and RunExecutable is not called.
C2_ExecuteContract ==
    last.op = "Execute" =>
        LET runs == CallsOf(last.calls, "RunExecutable")
        IN  /\ Len(runs) <= 1
            /\ Len(last.calls) >= 2
            /\ last.calls[1].op = "Stdout"
            /\ last.calls[2].op = "Stderr"
            /\ Len(runs) = 1 =>
                  /\ last.calls[Len(last.calls)] = runs[1]
                  /\ runs[1].args = <<"mvn">> \o ExpectedParameters(input.options)
            /\ (Len(runs) = 1 /\ runs[1].ok) =>
                  /\ last.err = NoErr
                  /\ last.value = IF input.options.ReturnStdout THEN last.out ELSE ""
            /\ (Len(runs) = 1 /\ ~runs[1].ok) => (last.value = "" /\ last.err # NoErr)
            /\ FailedDownload(last.calls) =>
                  (Len(runs) = 0 /\ last.value = "" /\ last.err # NoErr)
            /\ Len(runs) = 0 => FailedDownload(last.calls)

C2_Witness ==
    /\ last.op = "Execute"
    /\ input.options.ReturnStdout
    /\ last.value = "pom"
    /\ last.err = NoErr
    /\ Len(CallsOf(last.calls, "DownloadFile")) = 1

\* The mvn command Evaluate stands for.
EvaluateCommand(o, expression) ==
    <<"mvn">> \o ExpectedParameters(
        [PomPath |-> o.PomPath, ProjectSettingsFile |-> o.ProjectSettingsFile,
         GlobalSettingsFile |-> o.GlobalSettingsFile, M2Path |-> o.M2Path,
         Goals |-> <<"org.apache.maven.plugins:maven-help-plugin:3.1.0:evaluate">>,
         Defines |-> <<"-Dexpression=" \o expression, "-DforceStdout", "-q">>,
         Flags |-> <<>>, LogSuccessfulMavenTransfers |-> FALSE, ReturnStdout |-> TRUE])

\* What Evaluate returns once its one command has run.
EvaluateOutcome ==
    LET run == CallsOf(last.calls, "RunExecutable")[1]
    IN  /\ run.args = EvaluateCommand(input.options, input.expression)
        /\ ~run.ok => (last.value = "" /\ last.err # NoErr)
        /\ (run.ok /\ HasPrefix(last.out, "null object or invalid expression"))
              => (last.value = "" /\ last.err # NoErr)
        /\ (run.ok /\ ~HasPrefix(last.out, "null object or invalid expression"))
              => (last.value = last.out /\ last.err = NoErr)

\* C3 as stated: Evaluate runs exactly one mvn command, the evaluate goal
\* with the three defines, and returns "" and the error when it fails, ""
\* and an error when the output starts with "null object or invalid
\* expression", and the output with a nil error in every other case.
C3_AlwaysOneCommand ==
    last.op = "Evaluate" =>
        /\ Len(CallsOf(last.calls, "RunExecutable")) = 1
        /\ EvaluateOutcome

\* C3 amended: Evaluate runs that one command unless the download of a
\* settings file fails; then it runs none and returns "" and an error.
C3_OneCommandUnlessDownloadFails ==
    last.op = "Evaluate" =>
        IF FailedDownload(last.calls)
        THEN /\ CallsOf(last.calls, "RunExecutable") = <<>>
             /\ last.value = ""
             /\ last.err # NoErr
        ELSE /\ Len(CallsOf(last.calls, "RunExecutable")) = 1
             /\ EvaluateOutcome

C3_Witness ==
    /\ last.op = "Evaluate"
    /\ last.value = "pom"
    /\ last.err = NoErr
    /\ input.options.GlobalSettingsFile # ""
    /\ input.options.M2Path # ""

\* The defines of an install command: what lies between the --file pair and
\* the transfer listener define.
InstallDefinesOf(args, m2Path) ==
    LET first == IF m2Path # "" THEN 5 ELSE 4
    IN  SubSeq(args, first, Len(args) - 3)

Has(seq, x) == \E i \in 1..Len(seq) : seq[i] = x

\* C6: InstallFile with an empty pomFile returns an error and runs nothing.
\* Otherwise it runs one mvn command: goal install:install-file, --file
\* pomFile, -DpomFile=pomFile as last define; with an empty file the defines
\* are -Dfile=pomFile and -DpomFile=pomFile; with a file they start with
\* -Dfile=file and hold -Dpackaging=jar iff file contains ".jar" and
\* -Dclassifier=classes iff file contains "-classes".
C6_InstallFileCommand ==
    last.op = "InstallFile" =>
        IF input.pomFile = ""
        THEN last.err # NoErr /\ last.calls = <<>>
        ELSE
        LET runs == CallsOf(last.calls, "RunExecutable")
            args == runs[1].args
            defines == InstallDefinesOf(args, input.m2Path)
            k == IF input.m2Path # "" THEN 1 ELSE 0
        IN  /\ Len(runs) = 1
            /\ args[1] = "mvn"
            /\ args[Len(args)] = "install:install-file"
            /\ args[Len(args) - 1] = "--batch-mode"
            /\ <<args[2 + k], args[3 + k]>> = <<"--file", input.pomFile>>
            /\ k = 1 => args[2] = "-Dmaven.repo.local=" \o input.m2Path
            /\ Len(defines) >= 2
            /\ defines[Len(defines)] = "-DpomFile=" \o input.pomFile
            /\ input.file = "" =>
                  defines = <<"-Dfile=" \o input.pomFile, "-DpomFile=" \o input.pomFile>>
            /\ input.file # "" =>
                  /\ defines[1] = "-Dfile=" \o input.file
                  /\ Has(defines, "-Dpackaging=jar") <=> Contains(input.file, ".jar")
                  /\ Has(defines, "-Dclassifier=classes") <=> Contains(input.file, "-classes")
            /\ (last.err = NoErr) <=> runs[1].ok

C6_Witness ==
    /\ last.op = "InstallFile"
    /\ input.file = "target/app-classes.jar"
    /\ input.pomFile = "sub/pom.xml"
    /\ input.m2Path # ""
    /\ last.err = NoErr
    /\ Len(CallsOf(last.calls, "RunExecutable")[1].args) = 11

----------------------------------------------------------------------------
(* properties of doInstallMavenArtifacts *)

\* mvn commands run since the working directory last changed into a module.
Commands == CallsOf(log, "RunExecutable")

IsInstall(c) == c.args[Len(c.args)] = "install:install-file"

Installs == SelectSeq(Commands, IsInstall)

EvaluatesFinalName(c) == Has(c.args, "-Dexpression=project.build.finalName")

\* The command of InstallFile("", "pom.xml") with the workflow's M2Path.
PomInstallCommand ==
    <<"mvn">>
    \o (IF options.M2Path # "" THEN <<"-Dmaven.repo.local=" \o options.M2Path>> ELSE <<>>)
    \o <<"--file", "pom.xml", "-Dfile=pom.xml", "-DpomFile=pom.xml",
         "-Dorg.slf4j.simpleLogger.log.org.apache.maven.cli.transfer.Slf4jMavenTransferListener=warn",
         "--batch-mode", "install:install-file">>

FlattenCommand ==
    <<"mvn", "--file", "pom.xml", "-Dflatten.mode=resolveCiFriendliesOnly",
      "-Dorg.slf4j.simpleLogger.log.org.apache.maven.cli.transfer.Slf4jMavenTransferListener=warn",
      "--batch-mode", "flatten:flatten">>

\* The directory of each pom file of the universe, seen from the entry directory.
ModuleDir(pomFile) ==
    CASE pomFile = "pom.xml"     -> entryDir
      [] pomFile = "a/pom.xml"   -> entryDir \o "/a"
      [] pomFile = "a/b/pom.xml" -> entryDir \o "/a/b"

InModule == pc \in {"packaging", "installPom", "finalName", "installPomOnly",
                    "fileExists", "jar", "war", "classes", "chdirBack"}

ChdirCalls == CallsOf(utilsLog, "chdir")

\* C4: while no step has failed, the pom files are entered once each in glob
\* order; every chdir into a module starts from the entry directory and
\* leads to that pom's directory, the module's commands run there, and the
\* next chdir leads back to the entry directory; a successful return has
\* entered every pom file and leaves the working directory at the entry
\* directory.
C4_ModulesInOrder ==
    failures = <<>> =>
        /\ Len(entered) <= Len(pomFiles)
        /\ entered = SubSeq(pomFiles, 1, Len(entered))
        /\ pc = "loop" => (cwd = entryDir /\ Len(entered) = idx - 1)
        /\ InModule =>
              /\ Len(entered) = idx
              /\ cwd = ModuleDir(pomFiles[idx])
        /\ pc = "chdirBack" =>
              /\ Commands # <<>>
              /\ Has(Commands[1].args, "-Dexpression=project.packaging")
        /\ \A i \in 1..Len(ChdirCalls) :
              ChdirCalls[i].args =
                  IF i % 2 = 1 THEN <<Dir(pomFiles[(i + 1) \div 2])>> ELSE <<entryDir>>
        /\ Len(ChdirCalls) = (IF InModule THEN 2 * Len(entered) - 1 ELSE 2 * Len(entered))
        /\ pc = "done" => (entered = pomFiles /\ cwd = entryDir /\ result = NoErr)

C4_Witness ==
    /\ pc = "done"
    /\ failures = <<>>
    /\ pomFiles = <<"a/b/pom.xml", "a/pom.xml">>
    /\ entered = pomFiles
    /\ Len(ChdirCalls) = 4

\* The three artifacts of the module, in the order they are installed.
Artifacts ==
    <<"target/" \o finalName \o ".jar", "target/" \o finalName \o ".war",
      "target/" \o finalName \o "-classes.jar">>

ReportedPresent(f) == Has(log, Call("FileExists", <<f>>, TRUE))

Present == SelectSeq(Artifacts, ReportedPresent)

\* The file an install command installs.
FileOf(c) ==
    CHOOSE f \in {Artifacts[1], Artifacts[2], Artifacts[3], "pom.xml"} :
        Has(c.args, "-Dfile=" \o f)

InstalledFiles == [i \in 1..Len(Installs) |-> FileOf(Installs[i])]

IsPrefix(a, b) == Len(a) <= Len(b) /\ a = SubSeq(b, 1, Len(a))

\* The installs of a module with artifacts are over.
ArtifactsDone ==
    /\ packaging # "pom"
    /\ finalName # ""
    /\ pc \notin {"fileExists", "jar", "war", "classes"}

\* C5 as stated: for a module with a packaging other than pom and a
\* non-empty finalName, InstallFile is called for exactly the artifacts
\* FileExists reported present, in the order jar, war, classes jar.
C5_InstallsExactlyPresent ==
    ArtifactsDone => InstalledFiles = Present

\* C5 amended: the installs are those of the present artifacts in the order
\* jar, war, classes jar, up to the first install that fails; all of them
\* when none fails.  Each has pomFile pom.xml; an absent artifact is never
\* installed; with none present no install command is run.
C5_InstallsPresentUntilFailure ==
    ArtifactsDone =>
        /\ IsPrefix(InstalledFiles, Present)
        /\ \A i \in 1..Len(Installs) :
              /\ Has(Installs[i].args, "-DpomFile=pom.xml")
              /\ i < Len(Installs) => Installs[i].ok
        /\ (\A i \in 1..Len(Installs) : Installs[i].ok) => InstalledFiles = Present
        /\ Present = <<>> => Installs = <<>>

C5_Witness ==
    /\ ArtifactsDone
    /\ pc = "chdirBack"
    /\ Len(Present) = 3
    /\ InstalledFiles = Present
    /\ finalName = "app-classes"

\* The module's finalName was evaluated to the empty string.
FinalNameEmpty ==
    /\ packaging # "pom"
    /\ finalName = ""
    /\ \E i \in 1..Len(Commands) : EvaluatesFinalName(Commands[i]) /\ Commands[i].ok
    /\ ~(failures # <<>> /\ failures[1].step = "finalName")

NoArtifactCheck ==
    \A i \in 1..Len(log) : log[i].op = "FileExists" => ~HasPrefix(log[i].args[1], "target/")

\* C7: a module whose packaging evaluates to pom gets one install command,
\* that of InstallFile("", "pom.xml"), and finalName is not evaluated for it;
\* a module of another packaging whose finalName evaluates to "" gets that
\* one install command too, and no FileExists check of an artifact.
C7_PomOnlyInstall ==
    /\ packaging = "pom" =>
          /\ \A i \in 1..Len(Commands) : ~EvaluatesFinalName(Commands[i])
          /\ NoArtifactCheck
          /\ Len(Installs) = (IF pc = "installPom" THEN 0 ELSE 1)
          /\ \A i \in 1..Len(Installs) : Installs[i].args = PomInstallCommand
    /\ FinalNameEmpty =>
          /\ NoArtifactCheck
          /\ Len(Installs) = (IF pc = "installPomOnly" THEN 0 ELSE 1)
          /\ \A i \in 1..Len(Installs) : Installs[i].args = PomInstallCommand

C7_Witness ==
    /\ packaging = "pom"
    /\ pc = "chdirBack"
    /\ Len(entered) = 2
    /\ options.M2Path # ""
    /\ Len(Installs) = 1

\* C8: the first mvn command is the flatten command, run before any glob,
\* getwd or chdir; a step that fails ends the run with its error as the
\* result, and nothing is run or entered afterwards.
C8_FailFast ==
    [][ /\ failures # <<>> => UNCHANGED <<log, utilsLog, entered, cwd, failures>>
        /\ failures' # <<>> =>
              (pc' = "done" /\ Len(failures') = 1 /\ result' = failures'[1].err)
        /\ (entered = <<>> /\ Commands = <<>> /\ Commands' # <<>>) =>
              (utilsLog = <<>> /\ Commands'[1].args = FlattenCommand)
        /\ (utilsLog = <<>> /\ utilsLog' # <<>>) =>
              (Len(Commands) = 1 /\ Commands[1].args = FlattenCommand /\ Commands[1].ok)
      ]_vars

C8_Witness ==
    /\ pc = "done"
    /\ failures # <<>>
    /\ failures[1].step = "war"
    /\ Len(entered) = 2
    /\ Len(Installs) = 2

\* C9: whenever doInstallMavenArtifacts has returned, with success or with
\* the error of an Evaluate or InstallFile of a module, the working
\* directory is the entry directory.
C9_WorkingDirectoryRestored ==
    (/\ pc = "done"
     /\ failures # <<>> =>
            failures[1].step \in {"packaging", "installPom", "finalName",
                                  "installPomOnly", "jar", "war", "classes"})
        => cwd = entryDir

====
